---- MODULE Spec2Model ----
(***************************************************************************)
(* Office attendance backend (file-backed FastAPI app, src/main.py).       *)
(*                                                                         *)
(* The state is the four module-level collections of main.py (USERS,       *)
(* ATTENDANCE_RECORDS, TODOS, DELETED_USERS), the JSON files the handlers  *)
(* write (FILES), a logical wall clock (now: the value datetime.now()      *)
(* yields, one tick per handled request), the HTTP response of the last    *)
(* request, and issued, the history of the ids create_user has handed out  *)
(* (an id with the creation time of the user that got it).  Python lists   *)
(* are sequences: the handlers depend on list order (next(...) takes the   *)
(* first match, a todo id is len(TODOS) + 1).                              *)
(*                                                                         *)
(* Every handler is an operator from a store and a request to a new store  *)
(* and a response; an action applies one handler to the current state.     *)
(* None is modelled as the string "None" (or 0 for a missing created_at),  *)
(* a missing JSON file as the empty sequence (load_data_from_file returns  *)
(* the default and every caller treats an empty list like a missing file). *)
(***************************************************************************)
EXTENDS Integers, Sequences, FiniteSets, TLC

VARIABLES USERS, ATTENDANCE_RECORDS, TODOS, DELETED_USERS, FILES, now, response, issued

\* The handlers in progress, one frame of locals per worker thread.
VARIABLES threads

vars == <<USERS, ATTENDANCE_RECORDS, TODOS, DELETED_USERS, FILES, now, response, issued,
          threads>>

(* ------------------------------ bounds -------------------------------- *)

\* Number of requests handled in a behaviour (the clock stops there).
MaxTime == 3

\* Last day of the backfill window, in days after start_date.  The program's
\* window ends 92 days after 2025-04-01 (2025-07-02); the model's is shorter.
EndDay == 1

\* Last day of the window when the backfill is examined on its own: one full
\* week, Tuesday 2025-04-01 to Monday 2025-04-07, with its Saturday and Sunday.
WeekEnd == 6

\* The backfill on its own runs on a store of at most this many records.
MaxRecords == 2

(* ------------------------------ inputs -------------------------------- *)

\* strftime("%Y-%m-%d") of start_date + d days, for the first week of the window.
Calendar ==
    <<"2025-04-01", "2025-04-02", "2025-04-03", "2025-04-04",
      "2025-04-05", "2025-04-06", "2025-04-07", "2025-04-08">>

strftime(d) == Calendar[d + 1]

\* A weekday() that takes start_date for a Monday.
weekday_from_monday(d) == d % 7

\* datetime.weekday() of start_date + d days: 2025-04-01 is a Tuesday (1).
weekday(d) == (1 + d) % 7

Statuses == {"present", "absent"}

Roles == {"admin", "user"}

\* Request values: the default user's email and one fresh email.
Emails == {"user1@company.com", "new@company.com"}

Passwords == {"user123"}

FullNames == {"Test User"}

\* Path parameters and user_id fields: the default ids, the next id, and
\* one more.
RequestUserIds == {1, 2, 3}

\* A backfilled weekday and a Saturday the backfill never writes.
RequestDates == {"2025-04-01", "2025-04-05"}

RequestNotes == {"None", "late"}

TodoNotes == {"buy milk"}

RecordIds == {1, 2, 3}

\* The id that test_user_management posts with its new user.
TestUserId == 999

\* AttendanceRequest declares status and date as str: any text arrives.
AnyStatuses == Statuses \cup {"holiday"}

AnyDates == RequestDates \cup {"01/04/2025"}

\* Query parameters of the attendance reads: absent, or one integer.
FilterUserIds == {{}, {0}, {1}, {2}}

FilterMonths == {{}, {4}, {5}}

FilterYears == {{}, {2025}}

(* ------------------------------ helpers ------------------------------- *)

Range(s) == {s[i] : i \in 1..Len(s)}

\* max([x["id"] for x in s], default=0)
MaxOf(S) == IF S = {} THEN 0 ELSE CHOOSE m \in S : \A x \in S : x <= m

max_id(s) == MaxOf({s[i].id : i \in 1..Len(s)})

\* The first of the indices I, 0 when there is none: the element that
\* next((x for x in xs if cond), None) or an enumerate loop with an early
\* return finds, I being the indices at which cond holds.
FirstIndex(I) == IF I = {} THEN 0 ELSE CHOOSE i \in I : \A j \in I : i <= j

\* A removal that drops the last element whatever the index.
pop_last(s, i) == SubSeq(s, 1, Len(s) - 1)

\* list.pop(i)
Pop(s, i) == SubSeq(s, 1, i - 1) \o SubSeq(s, i + 1, Len(s))

Response(op, status, user_id, email, date, id) ==
    [op |-> op, status |-> status, user_id |-> user_id, email |-> email,
     date |-> date, id |-> id]

Store == [users |-> USERS, attendance |-> ATTENDANCE_RECORDS, todos |-> TODOS,
          deleted |-> DELETED_USERS, files |-> FILES]

Result(S, r) == [store |-> S, response |-> r]

(* --------------------------- persistence ------------------------------ *)

save_users(S) == [S EXCEPT !.files.users = S.users]

save_attendance(S) == [S EXCEPT !.files.attendance = S.attendance]

save_todos(S) == [S EXCEPT !.files.todos = S.todos]

save_deleted_users(S) == [S EXCEPT !.files.deleted_users = S.deleted]

ensure_user_persistence(S) == [S EXCEPT !.files.default_users = S.users]

\* save_attendance() followed by the writes of default_attendance.json and
\* backup_attendance.json ("force save to all persistence mechanisms").
force_save_attendance(S) ==
    [S EXCEPT !.files.attendance = S.attendance,
              !.files.default_attendance = S.attendance,
              !.files.backup_attendance = S.attendance]

(* ---------------------------- default data ---------------------------- *)

DEFAULT_USERS ==
    <<[id |-> 1, email |-> "admin@company.com", password |-> "admin123",
       full_name |-> "Admin User", role |-> "admin", created_at |-> 0],
      [id |-> 2, email |-> "user1@company.com", password |-> "user123",
       full_name |-> "User One", role |-> "user", created_at |-> 0]>>

\* The while loop of the generators: one record per weekday from day d to
\* EndDay for user_id, ids counting up from record_id, appended to records.
\* draw[d] is the outcome of random.random() < 0.85 on day d.
RECURSIVE backfill_until(_, _, _, _, _, _)
backfill_until(records, record_id, user_id, d, end_date, draw) ==
    IF d > end_date THEN records
    ELSE IF weekday(d) < 5
         THEN backfill_until(
                  Append(records,
                         [id |-> record_id, user_id |-> user_id, status |-> draw[d],
                          date |-> strftime(d), notes |-> "None",
                          user_name |-> "None", user_email |-> "None"]),
                  record_id + 1, user_id, d + 1, end_date, draw)
         ELSE backfill_until(records, record_id, user_id, d + 1, end_date, draw)

\* The loop over the window 0..EndDay.
backfill_from(records, record_id, user_id, d, draw) ==
    backfill_until(records, record_id, user_id, d, EndDay, draw)

Draws == [0..EndDay -> Statuses]

\* GlobalState.generate_attendance_data: DEFAULT_USERS[1:], ids from 1.
generate_attendance_data(draw) ==
    backfill_from(<<>>, 1, DEFAULT_USERS[2].id, 0, draw)

\* generate_attendance_for_user: appends to ATTENDANCE_RECORDS, then saves.
generate_attendance_for_user(S, user_id, draw) ==
    save_attendance(
        [S EXCEPT !.attendance =
            backfill_from(S.attendance, max_id(S.attendance) + 1, user_id, 0, draw)])

\* The outcomes of random.random() over a one-week window.
WeekDraws == [0..WeekEnd -> Statuses]

\* generate_attendance_for_user with the window 0..WeekEnd.
generate_attendance_for_week(S, user_id, draw) ==
    save_attendance(
        [S EXCEPT !.attendance =
            backfill_until(S.attendance, max_id(S.attendance) + 1, user_id, 0,
                           WeekEnd, draw)])

\* GlobalState.generate_attendance_data over any list of default users: the
\* backfill of each user after the first, ids counting on from 1.
RECURSIVE generate_attendance_data_for(_, _, _)
generate_attendance_data_for(users, records, draw) ==
    IF users = <<>> THEN records
    ELSE generate_attendance_data_for(
             Tail(users),
             backfill_from(records, Len(records) + 1, Head(users).id, 0, draw),
             draw)

\* load_data_from_file: the content of the file; the default (None or [],
\* both an empty value here) when the file is missing or reading it raises.
load_data_from_file(files, name, available) ==
    IF available THEN files[name] ELSE <<>>

\* save_data_to_file: writes the file; an exception is printed and dropped,
\* and the file stays as it was (the failure of open()).
save_data_to_file(files, name, data, available) ==
    IF available THEN [files EXCEPT ![name] = data] ELSE files

\* GlobalState(): what a starting process makes of the data files.
load_or_create_users(files, available) ==
    LET persisted_defaults == load_data_from_file(files, "default_users", available)
        defaults == IF persisted_defaults # <<>> THEN persisted_defaults
                    ELSE DEFAULT_USERS
        existing_users == load_data_from_file(files, "users", available)
    IN IF existing_users # <<>>
       THEN [users |-> existing_users, defaults |-> defaults, files |-> files]
       ELSE [users |-> defaults, defaults |-> defaults,
             files |-> save_data_to_file(files, "users", defaults, available)]

load_or_create_attendance(files, defaults, available, draw) ==
    LET backup_attendance == load_data_from_file(files, "backup_attendance", available)
        persisted_attendance == load_data_from_file(files, "default_attendance", available)
        existing_attendance == load_data_from_file(files, "attendance", available)
        default_attendance == generate_attendance_data_for(Tail(defaults), <<>>, draw)
        write(f, name, data) == save_data_to_file(f, name, data, available)
    IN IF backup_attendance # <<>>
       THEN [attendance |-> backup_attendance,
             files |-> write(write(files, "attendance", backup_attendance),
                             "default_attendance", backup_attendance)]
       ELSE IF persisted_attendance # <<>>
       THEN [attendance |-> persisted_attendance,
             files |-> write(write(files, "attendance", persisted_attendance),
                             "backup_attendance", persisted_attendance)]
       ELSE IF existing_attendance # <<>>
       THEN [attendance |-> existing_attendance,
             files |-> write(write(files, "default_attendance", existing_attendance),
                             "backup_attendance", existing_attendance)]
       ELSE [attendance |-> default_attendance,
             files |-> write(write(write(files, "attendance", default_attendance),
                                   "default_attendance", default_attendance),
                             "backup_attendance", default_attendance)]

GlobalState(files, available, draw) ==
    LET u == load_or_create_users(files, available)
        a == load_or_create_attendance(u.files, u.defaults, available, draw)
    IN [users |-> u.users, attendance |-> a.attendance,
        todos |-> load_data_from_file(files, "todos", available),
        deleted |-> load_data_from_file(files, "deleted_users", available),
        files |-> a.files]

\* A handler run while every save_data_to_file raises: the collections change
\* and the response is the same, the files stay as they were.
storage_down(S, r) == Result([r.store EXCEPT !.files = S.files], r.response)

(* ------------------------------- users -------------------------------- *)

\* A create_user that also refuses an email held by an archived user.
email_exists_or_archived(S, email) ==
    \/ \E i \in 1..Len(S.users) : S.users[i].email = email
    \/ \E k \in 1..Len(S.deleted) : S.deleted[k].user.email = email

\* create_user, "Check if email already exists": only USERS is searched.
email_exists(S, email) == \E i \in 1..Len(S.users) : S.users[i].email = email

\* An id taken from the number of active users instead of their largest id.
new_user_id_by_count(S) == Len(S.users) + 1

\* create_user, "Auto-generate user ID": one more than the largest active id.
new_user_id(S) == max_id(S.users) + 1

\* The welcome todo of create_user: appended unless the role is admin.
\* date_created is datetime.now() as a date: the model's requests all fall
\* on one day, "today".
welcome_todo(S, user) ==
    IF user.role # "admin"
    THEN save_todos(
             [S EXCEPT !.todos =
                 Append(@, [id |-> Len(S.todos) + 1, user_id |-> user.id,
                            notes |-> "Welcome " \o user.full_name
                                         \o "! This is your first todo item.",
                            date_created |-> "today"])])
    ELSE S

\* GET /api/users: every active user, without the password.
get_users(S) ==
    [i \in 1..Len(S.users) |->
        [id |-> S.users[i].id, email |-> S.users[i].email,
         full_name |-> S.users[i].full_name, role |-> S.users[i].role,
         created_at |-> S.users[i].created_at]]

\* The request model of POST /api/users: email, password, full_name and role
\* are its only fields, any other key of the JSON body (an "id") is dropped.
CreateUserRequest(body) ==
    [email |-> body.email, password |-> body.password,
     full_name |-> body.full_name, role |-> body.role]

\* POST /api/users at time t; draw holds the backfill's random outcomes.
create_user(S, t, user_data, draw) ==
    IF email_exists(S, user_data.email)
    THEN Result(S, Response("create_user", 400, 0, user_data.email, "None", 0))
    ELSE LET new_user == [id |-> new_user_id(S), email |-> user_data.email,
                          password |-> user_data.password,
                          full_name |-> user_data.full_name,
                          role |-> user_data.role, created_at |-> t]
             S1 == ensure_user_persistence(
                       save_users([S EXCEPT !.users = Append(@, new_user)]))
             S2 == generate_attendance_for_user(S1, new_user.id, draw)
         IN Result(welcome_todo(S2, new_user),
                   Response("create_user", 200, new_user.id, new_user.email,
                            "None", new_user.id))

\* delete_user, "Remove user from USERS".
remove_user(users, user_id) == SelectSeq(users, LAMBDA u : u.id # user_id)

\* delete_user, "Remove all attendance records".
remove_attendance(records, user_id) ==
    SelectSeq(records, LAMBDA r : r.user_id # user_id)

\* A delete_user that archives the todos but leaves them in TODOS.
remove_todos_skipped(todos, user_id) == todos

\* delete_user, "Remove all todos".
remove_todos(todos, user_id) == SelectSeq(todos, LAMBDA x : x.user_id # user_id)

\* delete_user, "Store user data for undo functionality".
archive_entry(S, t, user, user_id) ==
    [user |-> user,
     attendance |-> SelectSeq(S.attendance, LAMBDA r : r.user_id = user_id),
     todos |-> SelectSeq(S.todos, LAMBDA x : x.user_id = user_id),
     deleted_at |-> t]

\* A delete_user without the "User not found" check: with no such user it
\* still filters the collections, saves and answers 200.
delete_user_unchecked(S, t, user_id) ==
    LET i == FirstIndex({k \in 1..Len(S.users) : S.users[k].id = user_id})
        S1 == [S EXCEPT
                 !.deleted = IF i = 0 THEN @
                             ELSE Append(@, archive_entry(S, t, S.users[i], user_id)),
                 !.users = remove_user(@, user_id),
                 !.attendance = remove_attendance(@, user_id),
                 !.todos = remove_todos(@, user_id)]
    IN IF i # 0 /\ S.users[i].role = "admin"
       THEN Result(S, Response("delete_user", 403, user_id, S.users[i].email, "None", 0))
       ELSE Result(ensure_user_persistence(
                       save_deleted_users(save_todos(save_attendance(save_users(S1))))),
                   Response("delete_user", 200, user_id, "None", "None", user_id))

\* The deletion as SimpleDatabase.delete_user does it, whatever the role.
delete_user_any_role(S, t, user_id) ==
    LET i == FirstIndex({k \in 1..Len(S.users) : S.users[k].id = user_id})
    IN IF i = 0
       THEN Result(S, Response("delete_user", 404, user_id, "None", "None", 0))
       ELSE LET S1 == [S EXCEPT
                         !.deleted = Append(@, archive_entry(S, t, S.users[i], user_id)),
                         !.users = remove_user(@, user_id),
                         !.attendance = remove_attendance(@, user_id),
                         !.todos = remove_todos(@, user_id)]
            IN Result(ensure_user_persistence(
                          save_deleted_users(save_todos(save_attendance(save_users(S1))))),
                      Response("delete_user", 200, user_id, S.users[i].email, "None",
                               S.users[i].id))

\* DELETE /api/users/{user_id} at time t.
delete_user(S, t, user_id) ==
    LET i == FirstIndex({k \in 1..Len(S.users) : S.users[k].id = user_id})
    IN IF i = 0
       THEN Result(S, Response("delete_user", 404, user_id, "None", "None", 0))
       ELSE IF S.users[i].role = "admin"
       THEN Result(S, Response("delete_user", 403, user_id, S.users[i].email, "None", 0))
       ELSE LET S1 == [S EXCEPT
                         !.deleted = Append(@, archive_entry(S, t, S.users[i], user_id)),
                         !.users = remove_user(@, user_id),
                         !.attendance = remove_attendance(@, user_id),
                         !.todos = remove_todos(@, user_id)]
            IN Result(ensure_user_persistence(
                          save_deleted_users(save_todos(save_attendance(save_users(S1))))),
                      Response("delete_user", 200, user_id, S.users[i].email, "None",
                               S.users[i].id))

\* "Find the deleted user": index of the first archive entry of user_id.
find_deleted(S, user_id) ==
    FirstIndex({k \in 1..Len(S.deleted) : S.deleted[k].user.id = user_id})

\* A removal that drops only the first archive entry of user_id.
remove_first_deleted(deleted, user_id) ==
    LET i == FirstIndex({k \in 1..Len(deleted) : deleted[k].user.id = user_id})
    IN IF i = 0 THEN deleted ELSE Pop(deleted, i)

\* "Remove from deleted users list": every entry of user_id goes.
remove_deleted(deleted, user_id) == SelectSeq(deleted, LAMBDA d : d.user.id # user_id)

\* A purge that also clears the active collections of user_id.
permanent_delete_user_cascading(S, user_id) ==
    LET i == find_deleted(S, user_id)
    IN IF i = 0
       THEN Result(S, Response("permanent_delete_user", 404, user_id, "None", "None", 0))
       ELSE Result(ensure_user_persistence(
                       save_deleted_users(
                           [S EXCEPT !.deleted = remove_deleted(@, user_id),
                                     !.users = remove_user(@, user_id),
                                     !.attendance = remove_attendance(@, user_id),
                                     !.todos = remove_todos(@, user_id)])),
                   Response("permanent_delete_user", 200, user_id,
                            S.deleted[i].user.email, "None", S.deleted[i].user.id))

\* POST /api/users/{user_id}/permanent-delete
permanent_delete_user(S, user_id) ==
    LET i == find_deleted(S, user_id)
    IN IF i = 0
       THEN Result(S, Response("permanent_delete_user", 404, user_id, "None", "None", 0))
       ELSE Result(ensure_user_persistence(
                       save_deleted_users(
                           [S EXCEPT !.deleted = remove_deleted(@, user_id)])),
                   Response("permanent_delete_user", 200, user_id,
                            S.deleted[i].user.email, "None", S.deleted[i].user.id))

\* POST /api/users/{user_id}/undo
undo_user_deletion(S, user_id) ==
    LET i == find_deleted(S, user_id)
    IN IF i = 0
       THEN Result(S, Response("undo_user_deletion", 404, user_id, "None", "None", 0))
       ELSE LET d == S.deleted[i]
                S1 == [S EXCEPT !.users = Append(@, d.user),
                                !.attendance = @ \o d.attendance,
                                !.todos = @ \o d.todos,
                                !.deleted = remove_deleted(@, user_id)]
            IN Result(ensure_user_persistence(
                          save_deleted_users(save_todos(save_attendance(save_users(S1))))),
                      Response("undo_user_deletion", 200, user_id, d.user.email,
                               "None", d.user.id))

(* -------------------------------- login -------------------------------- *)

\* The credentials a caller may present.
LoginEmails == Emails \cup {"admin@company.com"}
LoginPasswords == Passwords \cup {"admin123", "wrong"}

\* A login that looks at the email only.
login_by_email(S, email, password) ==
    LET i == FirstIndex({k \in 1..Len(S.users) : S.users[k].email = email})
    IN IF i # 0
       THEN [success |-> TRUE, user_id |-> S.users[i].id]
       ELSE [success |-> FALSE, user_id |-> 0]

\* GET and POST /api/login: the first active user with this email and this
\* password, or success = False; nothing is written.
login(S, email, password) ==
    LET i == FirstIndex({k \in 1..Len(S.users) :
                            S.users[k].email = email /\ S.users[k].password = password})
    IN IF i # 0
       THEN [success |-> TRUE, user_id |-> S.users[i].id]
       ELSE [success |-> FALSE, user_id |-> 0]

(* --------------------------- MongoDBManager --------------------------- *)

\* The same four collections kept in MongoDB (mongodb.py); a collection is
\* the sequence of its documents in natural order, find_one and delete_one
\* take the first match.  A method that returns None or False answers 404
\* here, one that raises answers 500.

\* insert_many into the attendance collection, ordered: documents go in one
\* by one until one breaks the unique index on (user_id, date).
RECURSIVE insert_many_attendance(_, _)
insert_many_attendance(collection, documents) ==
    IF documents = <<>> THEN [collection |-> collection, ok |-> TRUE]
    ELSE IF \E k \in 1..Len(collection) :
                /\ collection[k].user_id = Head(documents).user_id
                /\ collection[k].date = Head(documents).date
         THEN [collection |-> collection, ok |-> FALSE]
         ELSE insert_many_attendance(Append(collection, Head(documents)),
                                     Tail(documents))

\* MongoDBManager.add_user: id from the largest id in the users collection;
\* insert_one raises on the unique email index.
mongo_add_user(S, t, user_data) ==
    IF email_exists(S, user_data.email)
    THEN Result(S, Response("add_user", 500, 0, user_data.email, "None", 0))
    ELSE LET new_user == [id |-> max_id(S.users) + 1, email |-> user_data.email,
                          password |-> user_data.password,
                          full_name |-> user_data.full_name,
                          role |-> user_data.role, created_at |-> t]
         IN Result([S EXCEPT !.users = Append(@, new_user)],
                   Response("add_user", 200, new_user.id, new_user.email, "None",
                            new_user.id))

\* MongoDBManager.delete_user: no role check; delete_one on users,
\* delete_many on attendance and todos.
mongo_delete_user(S, t, user_id) ==
    LET i == FirstIndex({k \in 1..Len(S.users) : S.users[k].id = user_id})
    IN IF i = 0
       THEN Result(S, Response("delete_user", 404, user_id, "None", "None", 0))
       ELSE Result([S EXCEPT
                      !.deleted = Append(@, archive_entry(S, t, S.users[i], user_id)),
                      !.users = Pop(@, i),
                      !.attendance = remove_attendance(@, user_id),
                      !.todos = remove_todos(@, user_id)],
                   Response("delete_user", 200, user_id, S.users[i].email, "None",
                            S.users[i].id))

\* MongoDBManager.undo_user_deletion: the first archive entry of user_id is
\* restored step by step and then removed with delete_one; an insert that
\* raises leaves the earlier steps done and the entry archived.
mongo_undo_user_deletion(S, user_id) ==
    LET i == find_deleted(S, user_id)
    IN IF i = 0
       THEN Result(S, Response("undo_user_deletion", 404, user_id, "None", "None", 0))
       ELSE LET d == S.deleted[i]
                a == insert_many_attendance(S.attendance, d.attendance)
            IN IF email_exists(S, d.user.email)
               THEN Result(S, Response("undo_user_deletion", 500, user_id,
                                       d.user.email, "None", 0))
               ELSE IF ~a.ok
               THEN Result([S EXCEPT !.users = Append(@, d.user),
                                     !.attendance = a.collection],
                           Response("undo_user_deletion", 500, user_id,
                                    d.user.email, "None", 0))
               ELSE Result([S EXCEPT !.users = Append(@, d.user),
                                     !.attendance = a.collection,
                                     !.todos = @ \o d.todos,
                                     !.deleted = Pop(@, i)],
                           Response("undo_user_deletion", 200, user_id,
                                    d.user.email, "None", d.user.id))

\* MongoDBManager.permanently_remove_deleted_user: delete_one.
mongo_permanently_remove_deleted_user(S, user_id) ==
    LET i == find_deleted(S, user_id)
    IN IF i = 0
       THEN Result(S, Response("permanent_delete_user", 404, user_id, "None",
                               "None", 0))
       ELSE Result([S EXCEPT !.deleted = Pop(@, i)],
                   Response("permanent_delete_user", 200, user_id,
                            S.deleted[i].user.email, "None", S.deleted[i].user.id))

(* ----------------------------- attendance ----------------------------- *)

\* create_attendance, "Check if attendance already exists for this user and date".
find_attendance(S, user_id, date) ==
    FirstIndex({k \in 1..Len(S.attendance) :
                   S.attendance[k].user_id = user_id /\ S.attendance[k].date = date})

\* An update that rewrites every record of the user of record i.
update_records_of_user(S, i, record) ==
    [S EXCEPT !.attendance =
        [k \in 1..Len(@) |->
            IF @[k].user_id = @[i].user_id
            THEN [@[k] EXCEPT !.status = record.status, !.notes = record.notes]
            ELSE @[k]]]

\* create_attendance, "Update existing record": status and notes of record i.
update_record(S, i, record) ==
    [S EXCEPT !.attendance[i].status = record.status,
              !.attendance[i].notes = record.notes]

\* create_attendance, "Return the complete record with user info": after the
\* save, the appended dict gains user_name and user_email when an active user
\* has the id.
add_user_info(S, i) ==
    LET u == FirstIndex({k \in 1..Len(S.users) : S.users[k].id = S.attendance[i].user_id})
    IN IF u = 0 THEN S
       ELSE [S EXCEPT !.attendance[i].user_name = S.users[u].full_name,
                      !.attendance[i].user_email = S.users[u].email]

\* create_attendance, "Create new record with a unique ID", to the return.
insert_attendance(S, record) ==
    LET new_record == [id |-> max_id(S.attendance) + 1,
                       user_id |-> record.user_id, status |-> record.status,
                       date |-> record.date, notes |-> record.notes,
                       user_name |-> "None", user_email |-> "None"]
        S1 == force_save_attendance(
                  [S EXCEPT !.attendance = Append(@, new_record)])
    IN Result(add_user_info(S1, Len(S1.attendance)),
              Response("create_attendance", 200, record.user_id, "None",
                       record.date, new_record.id))

\* POST /api/attendance
create_attendance(S, record) ==
    LET i == find_attendance(S, record.user_id, record.date)
    IN IF i # 0
       THEN Result(force_save_attendance(update_record(S, i, record)),
                   Response("create_attendance", 200, record.user_id, "None",
                            record.date, S.attendance[i].id))
       ELSE insert_attendance(S, record)

\* DELETE /api/attendance/{attendance_id}
delete_attendance(S, attendance_id) ==
    LET i == FirstIndex({k \in 1..Len(S.attendance) : S.attendance[k].id = attendance_id})
    IN IF i = 0
       THEN Result(S, Response("delete_attendance", 404, 0, "None", "None", attendance_id))
       ELSE Result(force_save_attendance([S EXCEPT !.attendance = Pop(@, i)]),
                   Response("delete_attendance", 200, S.attendance[i].user_id, "None",
                            S.attendance[i].date, attendance_id))

\* datetime.strptime(date, "%Y-%m-%d") on the strings that occur: the days of
\* Calendar parse to April 2025, any other text raises ValueError.
strptime(date) ==
    IF \E d \in 1..Len(Calendar) : Calendar[d] = date
    THEN [ok |-> TRUE, year |-> 2025, month |-> 4]
    ELSE [ok |-> FALSE, year |-> 0, month |-> 0]

\* The filtering shared by get_attendance and get_attendance_stats.  An
\* Optional[int] query parameter is the empty set (None) or a singleton.
\* "if user_id:" is false for None and for 0; the month/year loop parses the
\* date of every record left, and fails on the first that does not parse.
filter_records(S, user_id, month, year) ==
    LET by_user == IF user_id # {} /\ user_id # {0}
                   THEN SelectSeq(S.attendance, LAMBDA r : r.user_id \in user_id)
                   ELSE S.attendance
    IN IF month = {} /\ year = {}
       THEN [ok |-> TRUE, records |-> by_user]
       ELSE IF \E k \in 1..Len(by_user) : ~strptime(by_user[k].date).ok
       THEN [ok |-> FALSE, records |-> <<>>]
       ELSE [ok |-> TRUE,
             records |->
                 SelectSeq(by_user,
                           LAMBDA r : /\ year # {} => strptime(r.date).year \in year
                                      /\ month # {} => strptime(r.date).month \in month)]

\* GET /api/attendance: the filtered records without notes, with the name
\* and email of the user when an active user has the user_id.  An uncaught
\* ValueError is answered 500.
get_attendance(S, user_id, month, year) ==
    LET f == filter_records(S, user_id, month, year)
        clean(r) ==
            LET u == FirstIndex({k \in 1..Len(S.users) : S.users[k].id = r.user_id})
            IN [id |-> r.id, user_id |-> r.user_id, status |-> r.status,
                date |-> r.date,
                user_name |-> IF u = 0 THEN "None" ELSE S.users[u].full_name,
                user_email |-> IF u = 0 THEN "None" ELSE S.users[u].email]
    IN IF ~f.ok THEN [status |-> 500, records |-> <<>>]
       ELSE [status |-> 200,
             records |-> [k \in 1..Len(f.records) |-> clean(f.records[k])]]

\* GET /api/attendance/stats.  attendance_rate is the quotient
\* present_count / total_records * 100, kept as numerator and denominator.
get_attendance_stats(S, user_id, month, year) ==
    LET f == filter_records(S, user_id, month, year)
        total_records == Len(f.records)
        present_count == Len(SelectSeq(f.records, LAMBDA r : r.status = "present"))
    IN IF ~f.ok
       THEN [status |-> 500, total_days |-> 0, present_days |-> 0, absent_days |-> 0,
             attendance_rate |-> [num |-> 0, den |-> 1]]
       ELSE [status |-> 200, total_days |-> total_records,
             present_days |-> present_count,
             absent_days |-> total_records - present_count,
             attendance_rate |-> IF total_records > 0
                                 THEN [num |-> present_count * 100,
                                       den |-> total_records]
                                 ELSE [num |-> 0, den |-> 1]]

(* ------------------------------- todos -------------------------------- *)

\* POST /api/todos; the request carries no date_created, so today's date
\* is stored.
create_todo(S, todo) ==
    LET new_todo == [id |-> Len(S.todos) + 1, user_id |-> todo.user_id,
                     notes |-> todo.notes, date_created |-> "today"]
    IN Result(save_todos([S EXCEPT !.todos = Append(@, new_todo)]),
              Response("create_todo", 200, todo.user_id, "None", "None", new_todo.id))

\* PUT /api/todos/{todo_id}
update_todo(S, todo_id, notes) ==
    LET i == FirstIndex({k \in 1..Len(S.todos) : S.todos[k].id = todo_id})
    IN IF i = 0
       THEN Result(S, Response("update_todo", 404, 0, "None", "None", todo_id))
       ELSE Result(save_todos(IF notes # "None"
                              THEN [S EXCEPT !.todos[i].notes = notes]
                              ELSE S),
                   Response("update_todo", 200, S.todos[i].user_id, "None", "None",
                            todo_id))

\* DELETE /api/todos/{todo_id}
delete_todo(S, todo_id) ==
    LET i == FirstIndex({k \in 1..Len(S.todos) : S.todos[k].id = todo_id})
    IN IF i = 0
       THEN Result(S, Response("delete_todo", 404, 0, "None", "None", todo_id))
       ELSE Result(save_todos([S EXCEPT !.todos = Pop(@, i)]),
                   Response("delete_todo", 200, S.todos[i].user_id, "None", "None",
                            todo_id))

(* --------------------------- state machine ---------------------------- *)

\* The worker threads of the threadpool in which the handlers (plain def
\* functions) run.
Threads == {1, 2}

\* The locals of a handler that is not running.
NoUser == [id |-> 0, email |-> "None", password |-> "None", full_name |-> "None",
           role |-> "None", created_at |-> 0]

Idle == [pc |-> "idle", op |-> "none", user_id |-> 0, date |-> "None",
         status |-> "None", notes |-> "None", user_to_delete |-> NoUser,
         filtered |-> <<>>, code |-> 0]

NoFiles == [users |-> <<>>, attendance |-> <<>>, todos |-> <<>>,
            deleted_users |-> <<>>, default_users |-> <<>>,
            default_attendance |-> <<>>, backup_attendance |-> <<>>]

\* GlobalState.__init__ on an empty data directory: the defaults are created
\* and written out, todos and the archive start empty.
Init ==
    \E draw \in Draws :
        /\ USERS = DEFAULT_USERS
        /\ ATTENDANCE_RECORDS = generate_attendance_data(draw)
        /\ TODOS = <<>>
        /\ DELETED_USERS = <<>>
        /\ FILES = [NoFiles EXCEPT
                      !.users = DEFAULT_USERS,
                      !.attendance = generate_attendance_data(draw),
                      !.default_attendance = generate_attendance_data(draw),
                      !.backup_attendance = generate_attendance_data(draw)]
        /\ now = 1
        /\ response = Response("startup", 200, 0, "None", "None", 0)
        /\ issued = {}
        /\ threads = [t \in Threads |-> Idle]

\* One request: the handler's result replaces the collections and the files,
\* and the clock moves on.
Apply(r) ==
    /\ now <= MaxTime
    /\ USERS' = r.store.users
    /\ ATTENDANCE_RECORDS' = r.store.attendance
    /\ TODOS' = r.store.todos
    /\ DELETED_USERS' = r.store.deleted
    /\ FILES' = r.store.files
    /\ response' = r.response
    /\ now' = now + 1
    /\ UNCHANGED threads

CreateUser ==
    \E email \in Emails, password \in Passwords, full_name \in FullNames,
       role \in Roles, draw \in Draws :
        LET r == create_user(Store, now,
                             [email |-> email, password |-> password,
                              full_name |-> full_name, role |-> role], draw)
        IN /\ Apply(r)
           /\ issued' = IF r.response.status = 200
                        THEN issued \cup {[id |-> r.response.id, created_at |-> now]}
                        ELSE issued

DeleteUser ==
    \E user_id \in RequestUserIds :
        Apply(delete_user(Store, now, user_id)) /\ UNCHANGED issued

PermanentDeleteUser ==
    \E user_id \in RequestUserIds :
        Apply(permanent_delete_user(Store, user_id)) /\ UNCHANGED issued

UndoUserDeletion ==
    \E user_id \in RequestUserIds :
        Apply(undo_user_deletion(Store, user_id)) /\ UNCHANGED issued

CreateAttendance ==
    \E user_id \in RequestUserIds, date \in RequestDates, status \in Statuses,
       notes \in RequestNotes :
        Apply(create_attendance(Store, [user_id |-> user_id, status |-> status,
                                        date |-> date, notes |-> notes]))
        /\ UNCHANGED issued

DeleteAttendance ==
    \E attendance_id \in RecordIds :
        Apply(delete_attendance(Store, attendance_id)) /\ UNCHANGED issued

CreateTodo ==
    \E user_id \in RequestUserIds, notes \in TodoNotes :
        Apply(create_todo(Store, [user_id |-> user_id, notes |-> notes]))
        /\ UNCHANGED issued

UpdateTodo ==
    \E todo_id \in RecordIds, notes \in TodoNotes \cup {"None"} :
        Apply(update_todo(Store, todo_id, notes)) /\ UNCHANGED issued

DeleteTodo ==
    \E todo_id \in RecordIds :
        Apply(delete_todo(Store, todo_id)) /\ UNCHANGED issued

\* generate_attendance_for_user run on its own over the one-week window, on
\* a store that holds at most MaxRecords records.
Backfill ==
    \E user_id \in RequestUserIds, draw \in WeekDraws :
        /\ Len(ATTENDANCE_RECORDS) <= MaxRecords
        /\ Apply(Result(generate_attendance_for_week(Store, user_id, draw),
                        Response("generate_attendance_for_user", 200, user_id,
                                 "None", "None", 0)))
        /\ UNCHANGED issued

Next ==
    \/ CreateUser
    \/ DeleteUser
    \/ PermanentDeleteUser
    \/ UndoUserDeletion
    \/ CreateAttendance
    \/ DeleteAttendance
    \/ CreateTodo
    \/ UpdateTodo
    \/ DeleteTodo

Spec == Init /\ [][Next]_vars

\* The backfill alone, between deletions of single attendance records (which
\* leave gaps in the record ids).
NextBackfill == Backfill \/ DeleteAttendance

SpecBackfill == Init /\ [][NextBackfill]_vars

(* -------------------------- attendance alone -------------------------- *)

\* POST /api/attendance with any text as status and date.
PostAttendance ==
    \E user_id \in RequestUserIds, date \in AnyDates, status \in AnyStatuses :
        Apply(create_attendance(Store, [user_id |-> user_id, status |-> status,
                                        date |-> date, notes |-> "None"]))
        /\ UNCHANGED issued

\* GET /api/attendance: the response carries the number of records returned.
GetAttendance ==
    \E user_id \in FilterUserIds, month \in FilterMonths, year \in FilterYears :
        LET r == get_attendance(Store, user_id, month, year)
        IN Apply(Result(Store, Response("get_attendance", r.status, 0, "None", "None",
                                        Len(r.records))))
           /\ UNCHANGED issued

\* GET /api/attendance/stats: the response carries total_days.
GetAttendanceStats ==
    \E user_id \in FilterUserIds, month \in FilterMonths, year \in FilterYears :
        LET r == get_attendance_stats(Store, user_id, month, year)
        IN Apply(Result(Store, Response("get_attendance_stats", r.status, 0, "None",
                                        "None", r.total_days)))
           /\ UNCHANGED issued

NextAttendance ==
    \/ PostAttendance
    \/ DeleteAttendance
    \/ GetAttendance
    \/ GetAttendanceStats

SpecAttendance == Init /\ [][NextAttendance]_vars

(* --------------------------- failing storage -------------------------- *)

\* A mutating request served while the data directory cannot be written.
RequestWhileStorageDown ==
    \E r \in {create_todo(Store, [user_id |-> user_id, notes |-> notes]) :
                  user_id \in RequestUserIds, notes \in TodoNotes}
             \cup {delete_user(Store, now, user_id) : user_id \in RequestUserIds}
             \cup {delete_todo(Store, todo_id) : todo_id \in RecordIds} :
        Apply(storage_down(Store, r)) /\ UNCHANGED issued

\* The process restarts and rebuilds its state from the data files, which
\* can or cannot be read at that moment.
Restart ==
    \E available \in BOOLEAN, draw \in Draws :
        Apply(Result(GlobalState(FILES, available, draw),
                     Response("startup", 200, 0, "None", "None", 0)))
        /\ UNCHANGED issued

NextStorage ==
    \/ CreateTodo
    \/ DeleteTodo
    \/ DeleteUser
    \/ RequestWhileStorageDown
    \/ Restart

SpecStorage == Init /\ [][NextStorage]_vars

(* ------------------------- the MongoDB manager ------------------------ *)

MongoAddUser ==
    \E email \in Emails, password \in Passwords, full_name \in FullNames,
       role \in Roles :
        Apply(mongo_add_user(Store, now,
                             [email |-> email, password |-> password,
                              full_name |-> full_name, role |-> role]))
        /\ UNCHANGED issued

MongoDeleteUser ==
    \E user_id \in RequestUserIds :
        Apply(mongo_delete_user(Store, now, user_id)) /\ UNCHANGED issued

MongoUndoUserDeletion ==
    \E user_id \in RequestUserIds :
        Apply(mongo_undo_user_deletion(Store, user_id)) /\ UNCHANGED issued

MongoPermanentlyRemoveDeletedUser ==
    \E user_id \in RequestUserIds :
        Apply(mongo_permanently_remove_deleted_user(Store, user_id))
        /\ UNCHANGED issued

NextMongo ==
    \/ MongoAddUser
    \/ MongoDeleteUser
    \/ MongoUndoUserDeletion
    \/ MongoPermanentlyRemoveDeletedUser

SpecMongo == Init /\ [][NextMongo]_vars

(* ------------------------ interleaved handlers ------------------------ *)

\* The handlers are plain functions, so the server runs each request in a
\* worker thread and two handlers interleave between their statements.  Each
\* action below is one stretch of statements of one handler in thread t; a
\* handler's first stretch also takes the request.  A stretch that the model
\* takes as one step is a run of statements the program can also execute
\* without interruption.

Running(t) == threads[t].pc \notin {"idle", "done"}

Goto(t, frame) == threads' = [threads EXCEPT ![t] = frame]

\* The return (or the HTTPException) of the handler in thread t.
Return(t, frame, r) ==
    /\ Goto(t, [frame EXCEPT !.pc = "done", !.code = r.status])
    /\ response' = r

\* delete_user, "Find user to delete" and the two checks.
DeleteUserFind(t) ==
    \E user_id \in RequestUserIds :
        LET i == FirstIndex({k \in 1..Len(USERS) : USERS[k].id = user_id})
            frame == [Idle EXCEPT !.op = "delete_user", !.user_id = user_id]
        IN /\ ~Running(t)
           /\ now <= MaxTime
           /\ now' = now + 1
           /\ IF i = 0
              THEN Return(t, frame,
                          Response("delete_user", 404, user_id, "None", "None", 0))
              ELSE IF USERS[i].role = "admin"
              THEN Return(t, frame,
                          Response("delete_user", 403, user_id, USERS[i].email,
                                   "None", 0))
              ELSE /\ Goto(t, [frame EXCEPT !.pc = "archive",
                                            !.user_to_delete = USERS[i]])
                   /\ UNCHANGED response
           /\ UNCHANGED <<USERS, ATTENDANCE_RECORDS, TODOS, DELETED_USERS, FILES, issued>>

\* delete_user, "Store user data for undo functionality".
DeleteUserArchive(t) ==
    /\ threads[t].pc = "archive"
    /\ DELETED_USERS' =
           Append(DELETED_USERS,
                  archive_entry(Store, now, threads[t].user_to_delete,
                                threads[t].user_id))
    /\ Goto(t, [threads[t] EXCEPT !.pc = "rebind_users"])
    /\ UNCHANGED <<USERS, ATTENDANCE_RECORDS, TODOS, FILES, now, response, issued>>

\* delete_user, "Remove user from USERS".  No other handler modelled here adds
\* to USERS, so the comprehension and the assignment are one step.
DeleteUserRebindUsers(t) ==
    /\ threads[t].pc = "rebind_users"
    /\ USERS' = remove_user(USERS, threads[t].user_id)
    /\ Goto(t, [threads[t] EXCEPT !.pc = "filter_attendance"])
    /\ UNCHANGED <<ATTENDANCE_RECORDS, TODOS, DELETED_USERS, FILES, now, response, issued>>

\* delete_user, "Remove all attendance records": the comprehension builds a
\* new list from the current one ...
DeleteUserFilterAttendance(t) ==
    /\ threads[t].pc = "filter_attendance"
    /\ Goto(t, [threads[t] EXCEPT
                  !.pc = "rebind_attendance",
                  !.filtered = remove_attendance(ATTENDANCE_RECORDS, threads[t].user_id)])
    /\ UNCHANGED <<USERS, ATTENDANCE_RECORDS, TODOS, DELETED_USERS, FILES, now,
                   response, issued>>

\* ... and the assignment rebinds the global ATTENDANCE_RECORDS to it.
DeleteUserRebindAttendance(t) ==
    /\ threads[t].pc = "rebind_attendance"
    /\ ATTENDANCE_RECORDS' = threads[t].filtered
    /\ Goto(t, [threads[t] EXCEPT !.pc = "filter_todos", !.filtered = <<>>])
    /\ UNCHANGED <<USERS, TODOS, DELETED_USERS, FILES, now, response, issued>>

\* delete_user, "Remove all todos": the comprehension ...
DeleteUserFilterTodos(t) ==
    /\ threads[t].pc = "filter_todos"
    /\ Goto(t, [threads[t] EXCEPT
                  !.pc = "rebind_todos",
                  !.filtered = remove_todos(TODOS, threads[t].user_id)])
    /\ UNCHANGED <<USERS, ATTENDANCE_RECORDS, TODOS, DELETED_USERS, FILES, now,
                   response, issued>>

\* ... and the assignment to the global TODOS.
DeleteUserRebindTodos(t) ==
    /\ threads[t].pc = "rebind_todos"
    /\ TODOS' = threads[t].filtered
    /\ Goto(t, [threads[t] EXCEPT !.pc = "save", !.filtered = <<>>])
    /\ UNCHANGED <<USERS, ATTENDANCE_RECORDS, DELETED_USERS, FILES, now, response, issued>>

\* delete_user, "Save all changes to files", "Ensure persistence", return.
DeleteUserSave(t) ==
    /\ threads[t].pc = "save"
    /\ FILES' = ensure_user_persistence(
                    save_deleted_users(
                        save_todos(save_attendance(save_users(Store))))).files
    /\ Return(t, threads[t],
              Response("delete_user", 200, threads[t].user_id,
                       threads[t].user_to_delete.email, "None",
                       threads[t].user_to_delete.id))
    /\ UNCHANGED <<USERS, ATTENDANCE_RECORDS, TODOS, DELETED_USERS, now, issued>>

\* create_attendance, "Check if attendance already exists": when it does, the
\* update branch runs to its return; when not, the handler goes on to insert.
CreateAttendanceLookup(t) ==
    \E user_id \in RequestUserIds, date \in RequestDates, status \in Statuses,
       notes \in {"None"} :
        LET record == [user_id |-> user_id, date |-> date, status |-> status,
                       notes |-> notes]
            frame == [Idle EXCEPT !.op = "create_attendance", !.user_id = user_id,
                                  !.date = date, !.status = status, !.notes = notes]
            r == create_attendance(Store, record)
        IN /\ ~Running(t)
           /\ now <= MaxTime
           /\ now' = now + 1
           /\ IF find_attendance(Store, user_id, date) # 0
              THEN /\ ATTENDANCE_RECORDS' = r.store.attendance
                   /\ FILES' = r.store.files
                   /\ Return(t, frame, r.response)
              ELSE /\ Goto(t, [frame EXCEPT !.pc = "insert"])
                   /\ UNCHANGED <<ATTENDANCE_RECORDS, FILES, response>>
           /\ UNCHANGED <<USERS, TODOS, DELETED_USERS, issued>>

\* create_attendance, "Create new record with a unique ID" to the return.
CreateAttendanceInsert(t) ==
    LET r == insert_attendance(Store,
                               [user_id |-> threads[t].user_id,
                                date |-> threads[t].date,
                                status |-> threads[t].status,
                                notes |-> threads[t].notes])
    IN /\ threads[t].pc = "insert"
       /\ ATTENDANCE_RECORDS' = r.store.attendance
       /\ FILES' = r.store.files
       /\ Return(t, threads[t], r.response)
       /\ UNCHANGED <<USERS, TODOS, DELETED_USERS, now, issued>>

\* create_todo, whole.
CreateTodoRequest(t) ==
    \E user_id \in RequestUserIds, notes \in TodoNotes :
        LET r == create_todo(Store, [user_id |-> user_id, notes |-> notes])
        IN /\ ~Running(t)
           /\ now <= MaxTime
           /\ now' = now + 1
           /\ TODOS' = r.store.todos
           /\ FILES' = r.store.files
           /\ Return(t, [Idle EXCEPT !.op = "create_todo", !.user_id = user_id,
                                     !.notes = notes], r.response)
           /\ UNCHANGED <<USERS, ATTENDANCE_RECORDS, DELETED_USERS, issued>>

NextConcurrent ==
    \E t \in Threads :
        \/ DeleteUserFind(t)
        \/ DeleteUserArchive(t)
        \/ DeleteUserRebindUsers(t)
        \/ DeleteUserFilterAttendance(t)
        \/ DeleteUserRebindAttendance(t)
        \/ DeleteUserFilterTodos(t)
        \/ DeleteUserRebindTodos(t)
        \/ DeleteUserSave(t)
        \/ CreateAttendanceLookup(t)
        \/ CreateAttendanceInsert(t)
        \/ CreateTodoRequest(t)

SpecConcurrent == Init /\ [][NextConcurrent]_vars

(* ------------------------------ properties ---------------------------- *)

\* C1: no user id is present both in the active Users collection and in the
\* Deleted Users archive.
C1_ActiveAndArchiveDisjoint ==
    \A i \in 1..Len(USERS), j \in 1..Len(DELETED_USERS) :
        USERS[i].id # DELETED_USERS[j].user.id

\* C2: the active Attendance collection holds at most one record for each
\* (user_id, date) pair.
C2_OneRecordPerUserAndDate ==
    \A i, j \in 1..Len(ATTENDANCE_RECORDS) :
        (/\ ATTENDANCE_RECORDS[i].user_id = ATTENDANCE_RECORDS[j].user_id
         /\ ATTENDANCE_RECORDS[i].date = ATTENDANCE_RECORDS[j].date) => i = j

\* C3: for every id on which deleteUser succeeds, deleteUser(id) immediately
\* followed by undoUserDeletion(id) leaves the active Users, Attendance and
\* Todos collections holding exactly the same records, as sets, as before the
\* delete.
C3_DeleteThenUndoRestores ==
    \A id \in RequestUserIds :
        LET d == delete_user(Store, now, id)
            u == undo_user_deletion(d.store, id)
        IN d.response.status = 200 =>
               /\ u.response.status = 200
               /\ Range(u.store.users) = Range(USERS)
               /\ Range(u.store.attendance) = Range(ATTENDANCE_RECORDS)
               /\ Range(u.store.todos) = Range(TODOS)

\* C4: markAttendance(u, d, s1) followed by markAttendance(u, d, s2) results
\* in exactly one active record for (u, d), with status s2 and the notes of
\* the second call, and both calls return the same record id.
C4_MarkTwiceIsOneRecord ==
    \A u \in RequestUserIds, d \in RequestDates, s1 \in Statuses, s2 \in Statuses,
       n1 \in RequestNotes, n2 \in RequestNotes :
        LET r1 == create_attendance(Store, [user_id |-> u, status |-> s1,
                                            date |-> d, notes |-> n1])
            r2 == create_attendance(r1.store, [user_id |-> u, status |-> s2,
                                               date |-> d, notes |-> n2])
            a == r2.store.attendance
            hits == {i \in 1..Len(a) : a[i].user_id = u /\ a[i].date = d}
        IN /\ Cardinality(hits) = 1
           /\ \A i \in hits : a[i].status = s2 /\ a[i].notes = n2
           /\ r1.response.id = r2.response.id

\* C5: no two records in the active Users collection have the same id.
C5_UniqueUserIds ==
    \A i, j \in 1..Len(USERS) : USERS[i].id = USERS[j].id => i = j

\* C6: no two records in the active Users collection have the same email.
C6_UniqueUserEmails ==
    \A i, j \in 1..Len(USERS) : USERS[i].email = USERS[j].email => i = j

\* C7: an id assigned by createUser to one user is never assigned by a later
\* createUser to a different user, also after the first user was archived or
\* purged.
C7_UserIdsNeverReused ==
    \A a \in issued, b \in issued : a.id = b.id => a.created_at = b.created_at

\* C8: immediately after a successful deleteUser(id), no active user,
\* attendance record or todo has that id as id / user_id, and the archive
\* contains an entry for id holding exactly the attendance and todo records
\* that were removed.
C8_DeleteCascades ==
    \A id \in RequestUserIds :
        LET r == delete_user(Store, now, id)
            after == r.store
        IN r.response.status = 200 =>
               /\ \A i \in 1..Len(after.users) : after.users[i].id # id
               /\ \A i \in 1..Len(after.attendance) : after.attendance[i].user_id # id
               /\ \A i \in 1..Len(after.todos) : after.todos[i].user_id # id
               /\ \E k \in 1..Len(after.deleted) :
                      /\ after.deleted[k].user.id = id
                      /\ Range(after.deleted[k].attendance)
                             = Range(ATTENDANCE_RECORDS) \ Range(after.attendance)
                      /\ Range(after.deleted[k].todos)
                             = Range(TODOS) \ Range(after.todos)
                      /\ \A x \in Range(after.deleted[k].attendance) : x.user_id = id
                      /\ \A x \in Range(after.deleted[k].todos) : x.user_id = id

\* A delete that succeeded on a user who had attendance and a todo.
C8_Witness ==
    /\ response.op = "delete_user"
    /\ response.status = 200
    /\ \E k \in 1..Len(DELETED_USERS) :
           /\ DELETED_USERS[k].user.id = response.user_id
           /\ DELETED_USERS[k].attendance # <<>>
           /\ DELETED_USERS[k].todos # <<>>

\* C9: every active attendance record and every active todo has a user_id
\* equal to the id of some active user.
C9_ReferentialIntegrity ==
    /\ \A i \in 1..Len(ATTENDANCE_RECORDS) :
           \E k \in 1..Len(USERS) : USERS[k].id = ATTENDANCE_RECORDS[i].user_id
    /\ \A i \in 1..Len(TODOS) :
           \E k \in 1..Len(USERS) : USERS[k].id = TODOS[i].user_id

\* C10: createUser fails with 400 exactly when some active user has the
\* email, then leaves the collections (and the files) unchanged, and its
\* response is the same whatever the Deleted Users archive holds: an email
\* present only in the archive does not make it fail.
C10_DuplicateEmailRejected ==
    \A email \in Emails, password \in Passwords, full_name \in FullNames,
       role \in Roles, draw \in Draws :
        LET user_data == [email |-> email, password |-> password,
                          full_name |-> full_name, role |-> role]
            r == create_user(Store, now, user_data, draw)
            emptied == create_user([Store EXCEPT !.deleted = <<>>], now, user_data, draw)
        IN /\ (\E i \in 1..Len(USERS) : USERS[i].email = email)
                  => r.response.status = 400 /\ r.store = Store
           /\ (\A i \in 1..Len(USERS) : USERS[i].email # email)
                  => r.response.status = 200
           /\ r.response = emptied.response

\* A create rejected for its email while the archive holds a user.
C10_Witness ==
    /\ response.op = "create_user"
    /\ response.status = 400
    /\ DELETED_USERS # <<>>
    /\ \E i \in 1..Len(USERS) : USERS[i].email = response.email

\* C11: undoUserDeletion(id) answers 404 and changes nothing whenever the
\* archive holds no entry for id; and a second undoUserDeletion(id) right
\* after a successful one answers 404 and adds no user, attendance or todo
\* record.
C11_UndoWithoutEntryFails ==
    \A id \in RequestUserIds :
        LET u1 == undo_user_deletion(Store, id)
            u2 == undo_user_deletion(u1.store, id)
        IN /\ (\A k \in 1..Len(DELETED_USERS) : DELETED_USERS[k].user.id # id)
                  => u1.response.status = 404 /\ u1.store = Store
           /\ u1.response.status = 200
                  => u2.response.status = 404 /\ u2.store = u1.store

\* An undo answered 404 for a user that an earlier undo had restored: the
\* user is active, the archive is empty and the lifecycle files were written.
C11_Witness ==
    /\ response.op = "undo_user_deletion"
    /\ response.status = 404
    /\ \E i \in 1..Len(USERS) : USERS[i].id = response.user_id
    /\ DELETED_USERS = <<>>
    /\ FILES.default_users # <<>>

\* C12: permanentlyPurgeUser(id) leaves the active Users, Attendance and
\* Todos collections unchanged in every case: with an archive entry for id it
\* answers 200 and only removes the archived data of id, without one it
\* answers 404 and changes nothing.
C12_PurgeTouchesOnlyArchive ==
    \A id \in RequestUserIds :
        LET r == permanent_delete_user(Store, id)
            archived == \E k \in 1..Len(DELETED_USERS) : DELETED_USERS[k].user.id = id
        IN /\ r.store.users = USERS
           /\ r.store.attendance = ATTENDANCE_RECORDS
           /\ r.store.todos = TODOS
           /\ archived =>
                  /\ r.response.status = 200
                  /\ \A k \in 1..Len(r.store.deleted) : r.store.deleted[k].user.id # id
                  /\ \A k \in 1..Len(DELETED_USERS) :
                         DELETED_USERS[k].user.id # id
                             => DELETED_USERS[k] \in Range(r.store.deleted)
                  /\ Range(r.store.deleted) \subseteq Range(DELETED_USERS)
           /\ ~archived => r.response.status = 404 /\ r.store = Store

\* A purge that succeeded while a user with the purged id, and attendance of
\* that id, are active.
C12_Witness ==
    /\ response.op = "permanent_delete_user"
    /\ response.status = 200
    /\ \E i \in 1..Len(USERS) : USERS[i].id = response.user_id
    /\ \E i \in 1..Len(ATTENDANCE_RECORDS) :
           ATTENDANCE_RECORDS[i].user_id = response.user_id

\* C13: deleteUser(id) answers 404 when no active user has that id, also
\* when the id exists only in the archive, and then Users, Attendance, Todos
\* and the archive (and the files) are unchanged.
C13_DeleteUnknownUserFails ==
    \A id \in RequestUserIds :
        LET r == delete_user(Store, now, id)
        IN (\A i \in 1..Len(USERS) : USERS[i].id # id)
               => r.response.status = 404 /\ r.store = Store

\* A delete answered 404 for an id that only the archive holds.
C13_Witness ==
    /\ response.op = "delete_user"
    /\ response.status = 404
    /\ \A i \in 1..Len(USERS) : USERS[i].id # response.user_id
    /\ \E k \in 1..Len(DELETED_USERS) : DELETED_USERS[k].user.id = response.user_id

\* C18: a successful createUser adds attendance backfill records and one
\* welcome todo for the new user if and only if the requested role is not
\* admin; with role admin it adds no attendance record and no todo.
C18_BackfillOnlyForNonAdmin ==
    \A email \in Emails, password \in Passwords, full_name \in FullNames,
       role \in Roles, draw \in Draws :
        LET r == create_user(Store, now,
                             [email |-> email, password |-> password,
                              full_name |-> full_name, role |-> role], draw)
            added_attendance ==
                {k \in 1..Len(r.store.attendance) :
                     k > Len(ATTENDANCE_RECORDS)
                     /\ r.store.attendance[k].user_id = r.response.id}
            added_todos ==
                {k \in 1..Len(r.store.todos) :
                     k > Len(TODOS) /\ r.store.todos[k].user_id = r.response.id}
        IN r.response.status = 200 =>
               IF role # "admin"
               THEN added_attendance # {} /\ Cardinality(added_todos) = 1
               ELSE /\ r.store.attendance = ATTENDANCE_RECORDS
                    /\ r.store.todos = TODOS

C19_BackfillWeekdaysOnly ==
    \A user_id \in RequestUserIds, draw \in WeekDraws :
        LET S1 == generate_attendance_for_week(Store, user_id, draw)
            n == Len(ATTENDANCE_RECORDS)
            added == SubSeq(S1.attendance, n + 1, Len(S1.attendance))
            ids == {ATTENDANCE_RECORDS[k].id : k \in 1..n}
            largest == IF ids = {} THEN 0
                       ELSE CHOOSE m \in ids : \A x \in ids : x <= m
            Weekend == {"2025-04-05", "2025-04-06"}
        IN /\ SubSeq(S1.attendance, 1, n) = ATTENDANCE_RECORDS
           /\ \A d \in 0..WeekEnd :
                  Cardinality({k \in 1..Len(added) : added[k].date = Calendar[d + 1]})
                      = IF Calendar[d + 1] \in Weekend THEN 0 ELSE 1
           /\ \A k \in 1..Len(added) :
                  /\ added[k].user_id = user_id
                  /\ added[k].status \in {"present", "absent"}
                  /\ added[k].id = largest + k

\* A backfill has run on a store whose record ids had a gap (record 1 was
\* deleted, record 2 stayed): the Friday and the Monday of the week are
\* there for the user, the Saturday and the Sunday between them are not.
C19_Witness ==
    /\ response.op = "generate_attendance_for_user"
    /\ \A k \in 1..Len(ATTENDANCE_RECORDS) : ATTENDANCE_RECORDS[k].id # 1
    /\ \E k \in 1..Len(ATTENDANCE_RECORDS) :
           /\ ATTENDANCE_RECORDS[k].user_id = response.user_id
           /\ ATTENDANCE_RECORDS[k].date = "2025-04-04"
           /\ k < Len(ATTENDANCE_RECORDS)
           /\ ATTENDANCE_RECORDS[k + 1].date = "2025-04-07"
           /\ ATTENDANCE_RECORDS[k + 1].id = ATTENDANCE_RECORDS[k].id + 1

\* C14: when two markAttendance calls with identical (user_id, date, status,
\* notes) run concurrently and both have returned, the active attendance
\* holds exactly one record for that (user_id, date).
C14_ConcurrentMarksConverge ==
    \A t1, t2 \in Threads :
        ( /\ t1 # t2
          /\ threads[t1].pc = "done" /\ threads[t2].pc = "done"
          /\ threads[t1].op = "create_attendance"
          /\ threads[t2].op = "create_attendance"
          /\ threads[t1].code = 200 /\ threads[t2].code = 200
          /\ threads[t1].user_id = threads[t2].user_id
          /\ threads[t1].date = threads[t2].date
          /\ threads[t1].status = threads[t2].status
          /\ threads[t1].notes = threads[t2].notes )
        => Cardinality({k \in 1..Len(ATTENDANCE_RECORDS) :
                           /\ ATTENDANCE_RECORDS[k].user_id = threads[t1].user_id
                           /\ ATTENDANCE_RECORDS[k].date = threads[t1].date}) = 1

\* C15: when two deleteUser(id) calls for the same active user run
\* concurrently, at most one of them succeeds and the archive ends with
\* exactly one entry for id.  (No handler that runs here creates or restores
\* a user, so any two entries of one id come from the same active user.)
C15_OneConcurrentDeleteSucceeds ==
    \A id \in RequestUserIds :
        /\ (\A t \in Threads : ~Running(t))
               => Cardinality({k \in 1..Len(DELETED_USERS) :
                                  DELETED_USERS[k].user.id = id}) <= 1
        /\ \A t1, t2 \in Threads :
               ( /\ t1 # t2
                 /\ threads[t1].op = "delete_user" /\ threads[t2].op = "delete_user"
                 /\ threads[t1].user_id = id /\ threads[t2].user_id = id
                 /\ threads[t1].pc = "done" /\ threads[t2].pc = "done" )
               => ~(threads[t1].code = 200 /\ threads[t2].code = 200)

\* C16: when markAttendance or addTodo for user B has reported success and
\* no deleteUser has archived B, the record written for B is in the active
\* collection, whatever deleteUser(A), A # B, ran at the same time.
C16_NoLostWrite ==
    \A t \in Threads :
        LET B == threads[t].user_id
        IN ( /\ threads[t].pc = "done"
             /\ threads[t].code = 200
             /\ \A k \in 1..Len(DELETED_USERS) : DELETED_USERS[k].user.id # B )
           => /\ threads[t].op = "create_attendance"
                  => \E k \in 1..Len(ATTENDANCE_RECORDS) :
                         /\ ATTENDANCE_RECORDS[k].user_id = B
                         /\ ATTENDANCE_RECORDS[k].date = threads[t].date
              /\ threads[t].op = "create_todo"
                  => \E k \in 1..Len(TODOS) :
                         /\ TODOS[k].user_id = B
                         /\ TODOS[k].notes = threads[t].notes

\* C17: deleteUser is all-or-nothing: while a deleteUser(id) is between two
\* of its steps, what a read returns is never the user both archived and
\* active, nor the user removed while attendance or todos of it remain.
C17_DeleteAllOrNothing ==
    \A t \in Threads :
        LET id == threads[t].user_id
            active == \E i \in 1..Len(USERS) : USERS[i].id = id
            archived == \E k \in 1..Len(DELETED_USERS) : DELETED_USERS[k].user.id = id
        IN (threads[t].op = "delete_user" /\ Running(t))
           => /\ ~(archived /\ active)
              /\ ~active =>
                     /\ \A k \in 1..Len(ATTENDANCE_RECORDS) :
                            ATTENDANCE_RECORDS[k].user_id # id
                     /\ \A k \in 1..Len(TODOS) : TODOS[k].user_id # id

\* C21: in every reachable state no two records of the active attendance
\* have the same id.
C21_UniqueAttendanceIds ==
    \A i, j \in 1..Len(ATTENDANCE_RECORDS) :
        i # j => ATTENDANCE_RECORDS[i].id # ATTENDANCE_RECORDS[j].id

\* C22: in every reachable state no two active todos have the same id, and
\* each inserted todo gets the largest existing todo id plus one (1 when
\* there is none).
C22_UniqueTodoIds ==
    /\ \A i, j \in 1..Len(TODOS) : i # j => TODOS[i].id # TODOS[j].id
    /\ \A user_id \in RequestUserIds, notes \in TodoNotes :
           LET r == create_todo(Store, [user_id |-> user_id, notes |-> notes])
               ids == {TODOS[k].id : k \in 1..Len(TODOS)}
               largest == IF ids = {} THEN 0
                          ELSE CHOOSE m \in ids : \A x \in ids : x <= m
           IN /\ r.response.id = largest + 1
              /\ r.store.todos[Len(r.store.todos)].id = largest + 1

\* C29: no user is lost by deleteUser or undoUserDeletion: every user that is
\* active or archived before a successful deleteUser(id) or
\* undoUserDeletion(id) is active or archived after it.
C29_NoUserLost ==
    \A id \in RequestUserIds :
        LET held == Range(USERS) \cup {DELETED_USERS[k].user : k \in 1..Len(DELETED_USERS)}
            u == undo_user_deletion(Store, id)
            d == delete_user(Store, now, id)
        IN /\ u.response.status = 200
                  => held \subseteq
                         (Range(u.store.users)
                          \cup {u.store.deleted[k].user : k \in 1..Len(u.store.deleted)})
           /\ d.response.status = 200
                  => held \subseteq
                         (Range(d.store.users)
                          \cup {d.store.deleted[k].user : k \in 1..Len(d.store.deleted)})

\* C30: in every reachable state the archive holds at most one entry per
\* user id.
C30_OneArchiveEntryPerId ==
    \A i, j \in 1..Len(DELETED_USERS) :
        i # j => DELETED_USERS[i].user.id # DELETED_USERS[j].user.id

\* C23: deleteAttendance, updateTodoNotes and deleteTodo with an id that no
\* record of the respective active collection has answer 404 and change
\* nothing; with an existing id they answer 200 for a record of that id and
\* change only that one record (it is removed, or only its notes are
\* replaced).
C23_SingleRecordMutations ==
    \A id \in RecordIds :
        LET da == delete_attendance(Store, id)
            dt == delete_todo(Store, id)
            attendance_ids == {ATTENDANCE_RECORDS[k].id : k \in 1..Len(ATTENDANCE_RECORDS)}
            todo_ids == {TODOS[k].id : k \in 1..Len(TODOS)}
        IN /\ id \notin attendance_ids
                  => da.response.status = 404 /\ da.store = Store
           /\ id \in attendance_ids
                  => /\ da.response.status = 200
                     /\ da.response.id = id
                     /\ da.store.users = USERS
                     /\ da.store.todos = TODOS
                     /\ da.store.deleted = DELETED_USERS
                     /\ Len(da.store.attendance) = Len(ATTENDANCE_RECORDS) - 1
                     /\ \E k \in 1..Len(ATTENDANCE_RECORDS) :
                            /\ ATTENDANCE_RECORDS[k].id = id
                            /\ ATTENDANCE_RECORDS[k].user_id = da.response.user_id
                            /\ ATTENDANCE_RECORDS[k].date = da.response.date
                            /\ \A j \in 1..Len(da.store.attendance) :
                                   da.store.attendance[j] =
                                       ATTENDANCE_RECORDS[IF j < k THEN j ELSE j + 1]
           /\ id \notin todo_ids
                  => dt.response.status = 404 /\ dt.store = Store
           /\ id \in todo_ids
                  => /\ dt.response.status = 200
                     /\ dt.response.id = id
                     /\ dt.store.users = USERS
                     /\ dt.store.attendance = ATTENDANCE_RECORDS
                     /\ dt.store.deleted = DELETED_USERS
                     /\ Len(dt.store.todos) = Len(TODOS) - 1
                     /\ \E k \in 1..Len(TODOS) :
                            /\ TODOS[k].id = id
                            /\ TODOS[k].user_id = dt.response.user_id
                            /\ \A j \in 1..Len(dt.store.todos) :
                                   dt.store.todos[j] = TODOS[IF j < k THEN j ELSE j + 1]
           /\ \A notes \in TodoNotes \cup {"None"} :
                  LET ut == update_todo(Store, id, notes)
                  IN /\ id \notin todo_ids
                            => ut.response.status = 404 /\ ut.store = Store
                     /\ id \in todo_ids
                            => /\ ut.response.status = 200
                               /\ ut.response.id = id
                               /\ ut.store.users = USERS
                               /\ ut.store.attendance = ATTENDANCE_RECORDS
                               /\ ut.store.deleted = DELETED_USERS
                               /\ Len(ut.store.todos) = Len(TODOS)
                               /\ \E k \in 1..Len(TODOS) :
                                      /\ TODOS[k].id = id
                                      /\ TODOS[k].user_id = ut.response.user_id
                                      /\ ut.store.todos[k].id = id
                                      /\ ut.store.todos[k].user_id = TODOS[k].user_id
                                      /\ ut.store.todos[k].date_created = TODOS[k].date_created
                                      /\ ut.store.todos[k].notes =
                                             IF notes = "None" THEN TODOS[k].notes ELSE notes
                                      /\ \A j \in 1..Len(TODOS) :
                                             j # k => ut.store.todos[j] = TODOS[j]

\* The first of two todos was deleted and the second is still there.
C23_Witness ==
    /\ response.op = "delete_todo"
    /\ response.status = 200
    /\ response.id = 1
    /\ Len(TODOS) = 1
    /\ TODOS[1].id = 2

\* C24: attendanceStats over a filter that matches no attendance record
\* returns total 0, present 0, absent 0 and percentage 0, without a fault.
\* A record matches when its user_id is the filter's (if given) and its date
\* is a well-formed date of the filter's month and year (if given).
C24_EmptyStatsAreZero ==
    \A user_id \in FilterUserIds, month \in FilterMonths, year \in FilterYears :
        LET month_of(date) == IF date \in Range(Calendar) THEN {4} ELSE {}
            year_of(date) == IF date \in Range(Calendar) THEN {2025} ELSE {}
            matching ==
                {k \in 1..Len(ATTENDANCE_RECORDS) :
                    /\ user_id # {} => ATTENDANCE_RECORDS[k].user_id \in user_id
                    /\ month # {} => month_of(ATTENDANCE_RECORDS[k].date) = month
                    /\ year # {} => year_of(ATTENDANCE_RECORDS[k].date) = year}
            stats == get_attendance_stats(Store, user_id, month, year)
        IN matching = {}
               => /\ stats.status = 200
                  /\ stats.total_days = 0
                  /\ stats.present_days = 0
                  /\ stats.absent_days = 0
                  /\ stats.attendance_rate.num = 0

\* C25: for every reachable state and every filter, attendanceStats reports
\* total = number of active attendance records matching the filter, present
\* = number of those with status present, absent = number of those with
\* status absent, and present + absent = total.
C25_StatsCountMatchingRecords ==
    \A user_id \in FilterUserIds, month \in FilterMonths, year \in FilterYears :
        LET matches(r) ==
                /\ user_id # {} => r.user_id \in user_id
                /\ month # {} => (r.date \in Range(Calendar) /\ month = {4})
                /\ year # {} => (r.date \in Range(Calendar) /\ year = {2025})
            count(status) ==
                Cardinality({k \in 1..Len(ATTENDANCE_RECORDS) :
                                /\ matches(ATTENDANCE_RECORDS[k])
                                /\ ATTENDANCE_RECORDS[k].status = status})
            total == Cardinality({k \in 1..Len(ATTENDANCE_RECORDS) :
                                     matches(ATTENDANCE_RECORDS[k])})
            stats == get_attendance_stats(Store, user_id, month, year)
        IN /\ stats.status = 200
           /\ stats.total_days = total
           /\ stats.present_days = count("present")
           /\ stats.absent_days = count("absent")
           /\ stats.present_days + stats.absent_days = stats.total_days

\* C26: markAttendance with a status outside {present, absent} or with a
\* date that is not a well-formed YYYY-MM-DD string is answered 422 and
\* stores nothing; so every active attendance record has a status in
\* {present, absent} and a well-formed date, and listAttendance and
\* attendanceStats with a month or year filter never fail on a stored date.
C26_AttendanceInputValidated ==
    /\ \A user_id \in RequestUserIds, date \in AnyDates, status \in AnyStatuses :
           LET r == create_attendance(Store, [user_id |-> user_id, status |-> status,
                                              date |-> date, notes |-> "None"])
           IN (status \notin {"present", "absent"} \/ date \notin Range(Calendar))
                  => r.response.status = 422 /\ r.store = Store
    /\ \A k \in 1..Len(ATTENDANCE_RECORDS) :
           /\ ATTENDANCE_RECORDS[k].status \in {"present", "absent"}
           /\ ATTENDANCE_RECORDS[k].date \in Range(Calendar)
    /\ \A user_id \in FilterUserIds, month \in FilterMonths, year \in FilterYears :
           /\ get_attendance(Store, user_id, month, year).status = 200
           /\ get_attendance_stats(Store, user_id, month, year).status = 200

\* C27: a failure of the storage is surfaced: no mutating operation answers
\* success when its write failed (after a successful addTodo or deleteTodo
\* the todos file holds the todos, after a successful deleteUser the files
\* hold the four collections), and no load substitutes default or empty data
\* for data that could not be read (after a start the users, todos and
\* archive are those of the files).
C27_StorageFailureSurfaced ==
    /\ (response.op \in {"create_todo", "delete_todo"} /\ response.status = 200)
           => FILES.todos = TODOS
    /\ (response.op = "delete_user" /\ response.status = 200)
           => /\ FILES.users = USERS
              /\ FILES.attendance = ATTENDANCE_RECORDS
              /\ FILES.todos = TODOS
              /\ FILES.deleted_users = DELETED_USERS
    /\ response.op = "startup"
           => /\ FILES.users = USERS
              /\ FILES.todos = TODOS
              /\ FILES.deleted_users = DELETED_USERS

\* C28: createUser with a request that carries an id N (the test posts 999)
\* makes listUsers contain the new user under id N, and deleteUser(N) and
\* undoUserDeletion(N) then act on that user.
C28_RequestedIdIsUsed ==
    \A email \in Emails, password \in Passwords, full_name \in FullNames,
       draw \in Draws :
        LET body == [id |-> TestUserId, email |-> email, password |-> password,
                     full_name |-> full_name, role |-> "user"]
            c == create_user(Store, now, CreateUserRequest(body), draw)
            listed == get_users(c.store)
            d == delete_user(c.store, now, TestUserId)
            u == undo_user_deletion(d.store, TestUserId)
        IN c.response.status = 200 =>
               /\ \E k \in 1..Len(listed) :
                      listed[k].id = TestUserId /\ listed[k].email = email
               /\ d.response.status = 200
               /\ u.response.status = 200

\* C31: after a successful permanentlyPurgeUser(id), undoUserDeletion(id)
\* answers 404 and restores nothing (as long as no deleteUser(id) has
\* succeeded since), for the file-backed purge and for the Mongo-backed one.
C31_PurgedUserStaysGone ==
    \A id \in RequestUserIds :
        LET p == permanent_delete_user(Store, id)
            u == undo_user_deletion(p.store, id)
            mp == mongo_permanently_remove_deleted_user(Store, id)
            mu == mongo_undo_user_deletion(mp.store, id)
        IN /\ p.response.status = 200
                  => u.response.status = 404 /\ u.store = p.store
           /\ mp.response.status = 200
                  => mu.response.status = 404 /\ mu.store = mp.store

\* The number of active users whose role is admin.
admin_count(users) == Cardinality({k \in 1..Len(users) : users[k].role = "admin"})

\* C33: deleteUser on a user whose role is admin answers 403 and leaves the
\* four collections (and the files) as they were; no archive entry holds an
\* admin, and no deleteUser lowers the number of active admins.
C33_AdminIsNeverDeleted ==
    /\ \A id \in RequestUserIds :
           LET r == delete_user(Store, now, id)
           IN /\ (\E k \in 1..Len(USERS) :
                      USERS[k].id = id /\ USERS[k].role = "admin")
                  => r.response.status = 403 /\ r.store = Store
              /\ admin_count(r.store.users) >= admin_count(USERS)
    /\ \A k \in 1..Len(DELETED_USERS) : DELETED_USERS[k].user.role # "admin"

\* A deletion of the admin created with id 2 has just been refused, while the
\* former user 2 sits in the archive.
C33_Witness ==
    /\ response.op = "delete_user" /\ response.status = 403
    /\ response.user_id = 2
    /\ Len(DELETED_USERS) = 1 /\ DELETED_USERS[1].user.id = 2
    /\ \E k \in 1..Len(USERS) : USERS[k].id = 2 /\ USERS[k].role = "admin"

\* The four collections of a store, without the files.
collections(S) == [users |-> S.users, attendance |-> S.attendance,
                   todos |-> S.todos, deleted |-> S.deleted]

\* C34: markAttendance on an existing (user_id, date) changes the status and
\* notes of that one record and nothing else in the four collections; the
\* same request twice leaves the collections as the request once does.
C34_UpdateTouchesOneRecord ==
    \A user_id \in RequestUserIds, date \in RequestDates,
       status \in Statuses, notes \in RequestNotes :
        LET record == [user_id |-> user_id, status |-> status,
                       date |-> date, notes |-> notes]
            i == find_attendance(Store, user_id, date)
            once == create_attendance(Store, record)
            twice == create_attendance(once.store, record)
        IN /\ i # 0 =>
                /\ once.response.status = 200
                /\ once.store.users = USERS
                /\ once.store.todos = TODOS
                /\ once.store.deleted = DELETED_USERS
                /\ Len(once.store.attendance) = Len(ATTENDANCE_RECORDS)
                /\ \A k \in 1..Len(ATTENDANCE_RECORDS) :
                       IF k = i
                       THEN once.store.attendance[k] =
                                [ATTENDANCE_RECORDS[k] EXCEPT !.status = status,
                                                              !.notes = notes]
                       ELSE once.store.attendance[k] = ATTENDANCE_RECORDS[k]
           /\ twice.response.status = 200
           /\ collections(twice.store) = collections(once.store)

\* An existing record of user 2 has just been updated to notes "late" while
\* the user has another record.
C34_Witness ==
    /\ response.op = "create_attendance" /\ response.status = 200
    /\ response.user_id = 2
    /\ Len(ATTENDANCE_RECORDS) = 2
    /\ \E k \in 1..Len(ATTENDANCE_RECORDS) :
           /\ ATTENDANCE_RECORDS[k].id = response.id
           /\ ATTENDANCE_RECORDS[k].user_id = 2
           /\ ATTENDANCE_RECORDS[k].notes = "late"
    /\ \E k \in 1..Len(ATTENDANCE_RECORDS) :
           /\ ATTENDANCE_RECORDS[k].user_id = 2
           /\ ATTENDANCE_RECORDS[k].notes = "None"

\* What attendance.json keeps of a record: the five fields of a record.
stored(records) ==
    [k \in 1..Len(records) |->
        [id |-> records[k].id, user_id |-> records[k].user_id,
         status |-> records[k].status, date |-> records[k].date,
         notes |-> records[k].notes]]

\* The mutating operations whose effects a restart is said to keep.
DurableOps == {"create_user", "create_attendance", "delete_attendance",
               "delete_user", "undo_user_deletion"}

\* C32: after a successful createUser, markAttendance, deleteAttendance,
\* deleteUser or undoUserDeletion, a restart that rebuilds GlobalState from
\* the data files loads Users, Attendance, Todos and the archive equal to the
\* in-memory collections just before it.
C32_RestartKeepsCollections ==
    (response.op \in DurableOps /\ response.status = 200) =>
        \A draw \in Draws :
            LET g == GlobalState(FILES, TRUE, draw)
            IN /\ g.users = USERS
               /\ stored(g.attendance) = stored(ATTENDANCE_RECORDS)
               /\ g.todos = TODOS
               /\ g.deleted = DELETED_USERS

\* Some active user of S has exactly this email and this password.
has_credentials(S, email, password) ==
    \E k \in 1..Len(S.users) :
        S.users[k].email = email /\ S.users[k].password = password

====
